---- MODULE Spec2Model ----
(***************************************************************************)
(* The signing manager of crates/signer/src/manager.rs: the registry of    *)
(* consensus signers, the per-scheme proxy registry (ProxySigners), the    *)
(* module -> proxy pubkeys index, and the operations of SigningManager.    *)
(*                                                                         *)
(* The three async operations (create_proxy, sign_consensus, sign_proxy)   *)
(* suspend at the signer's `sign(..).await`; each is a call step, followed *)
(* by a return step or by a cancel step (the future is dropped).  Rust's   *)
(* borrows order them: create_proxy holds `&mut self` for the whole call,  *)
(* the two sign operations hold `&self`.                                   *)
(*                                                                         *)
(* Option<T> is a set with at most one element: None is {}, Some(x) {x}.   *)
(* HashMap<K, V> is a function whose DOMAIN is the set of keys.            *)
(*                                                                         *)
(* Keys and signatures are symbolic: a secret key is a number, its public  *)
(* key is the scheme with the raw bytes PubBase + sk, a signature records  *)
(* the signing key and the signing root.  The key types live in cb_common; *)
(* nothing in manager.rs keeps the raw bytes of a BLS key and of an ECDSA  *)
(* key apart, so both schemes draw their raw bytes from the same values.   *)
(* The manager is built for one chain (CHAIN), one consensus signer can be *)
(* added, and callers also present a consensus key that is never added.    *)
(***************************************************************************)
EXTENDS Integers, Sequences, FiniteSets, TLC

\* ---------------------------------------------------------------- bounds
\* proxy secret keys are 1..MaxKey
MaxKey == 2
\* number of sign_consensus / sign_proxy calls suspended at the same time
MaxReaders == 1
\* object roots handed to sign_consensus / sign_proxy are 1..MaxRoot
MaxRoot == 1

\* offset between a secret key and the raw bytes of its public key
PubBase == 100

Schemes == {"Bls", "Ecdsa"}
Chains == {"Holesky", "Mainnet"}
\* the chain the manager is constructed for
CHAIN == "Holesky"
ModuleIds == {"m1", "m2"}
ProxyKeys == 1..MaxKey
\* the secret key of the consensus signer a caller hands to add_consensus_signer
ConsensusKeys == {MaxKey + 1}
Roots == 1..MaxRoot
\* the secret keys of the proxy signers a caller hands to add_proxy_signer
CallerKeys == {1}
\* raw byte strings a caller may present: those of every proxy key, and one of no key
RawBytes == {PubBase + n : n \in 0..MaxKey}

VARIABLES
    chain,              \* SigningManager.chain
    consensus_signers,  \* SigningManager.consensus_signers
    proxy_signers,      \* SigningManager.proxy_signers
    proxy_pubkeys,      \* SigningManager.proxy_pubkeys
    writer,             \* the create_proxy call suspended in sign, if any
    readers,            \* the sign_consensus / sign_proxy calls suspended in sign
    added,              \* history: the pubkeys passed to add_consensus_signer
    event               \* the last step taken: operation, phase, arguments, result

vars == <<chain, consensus_signers, proxy_signers, proxy_pubkeys,
          writer, readers, added, event>>

\* the manager's own fields
manager == <<chain, consensus_signers, proxy_signers, proxy_pubkeys>>

\* ------------------------------------------------- cryptographic primitives
\* Signer::pubkey(): the public key of a secret key of a scheme
pubkey(scheme, sk) == [scheme |-> scheme, bytes |-> PubBase + sk]

\* PubKey::as_ref() / to_vec(): the raw bytes of a public key
as_ref(pk) == pk.bytes

\* Signer::new_random() wrapped as a signer of the scheme
new_signer(scheme, sk) == [scheme |-> scheme, sk |-> sk]

signer_pubkey(signer) == pubkey(signer.scheme, signer.sk)

\* ProxyDelegation::tree_hash_root()
tree_hash_root(message) ==
    [kind |-> "ProxyDelegation", delegator |-> as_ref(message.delegator),
     scheme |-> message.proxy.scheme, proxy |-> as_ref(message.proxy)]

\* the tree hash root of a 32-byte object root handed in by a caller
object_root(r) == [kind |-> "Root", delegator |-> r, scheme |-> "", proxy |-> r]

\* compute_signing_root(object_root, chain.builder_domain())
compute_signing_root(root, c) == [root |-> root, domain |-> c]

\* Signer::sign(chain, object_root)
sign(signer, c, root) ==
    [by |-> signer.sk, scheme |-> signer.scheme,
     signing_root |-> compute_signing_root(root, c)]

\* PubKey::verify_signature(signing_root, signature)
verify_signature(pk, signing_root, signature) ==
    /\ signature.signing_root = signing_root
    /\ pubkey(signature.scheme, signature.by) = pk

\* mutant: validation checks the signed root and the signer but not the domain
validate_any_domain(delegation, c) ==
    /\ delegation.signature.signing_root.root = tree_hash_root(delegation.message)
    /\ pubkey(delegation.signature.scheme, delegation.signature.by) =
          delegation.message.delegator

\* SignedProxyDelegation::validate(chain)
validate(delegation, c) ==
    verify_signature(delegation.message.delegator,
                     compute_signing_root(tree_hash_root(delegation.message), c),
                     delegation.signature)

\* ProxySigner::new(signer, delegation)
ProxySigner(signer, delegation) == [signer |-> signer, delegation |-> delegation]

\* ------------------------------------------------------------ ProxySigners
EmptyMap == <<>>

insert(map, key, value) ==
    [k \in (DOMAIN map) \cup {key} |-> IF k = key THEN value ELSE map[k]]

get_proxy_signer_bls(ps, pk) ==
    IF pk \in DOMAIN ps.bls_signers THEN {ps.bls_signers[pk]} ELSE {}

get_proxy_signer_ecdsa(ps, pk) ==
    IF pk \in DOMAIN ps.ecdsa_signers THEN {ps.ecdsa_signers[pk]} ELSE {}

\* mutant: the typed lookup dispatches each scheme to the other scheme's map
get_crossed(ps, key) ==
    IF key.scheme = "Bls" THEN get_proxy_signer_ecdsa(ps, key)
    ELSE get_proxy_signer_bls(ps, key)

get(ps, key) ==
    IF key.scheme = "Bls" THEN get_proxy_signer_bls(ps, key)
    ELSE get_proxy_signer_ecdsa(ps, key)

add(ps, proxy) ==
    IF proxy.signer.scheme = "Bls"
    THEN [ps EXCEPT !.bls_signers = insert(@, signer_pubkey(proxy.signer), proxy)]
    ELSE [ps EXCEPT !.ecdsa_signers = insert(@, signer_pubkey(proxy.signer), proxy)]

find_typed(keys, bytes) == {x \in keys : as_ref(x) = bytes}

\* mutant: the ECDSA map is searched first
find_pubkey_ecdsa_first(ps, bytes) ==
    LET ecdsa == find_typed(DOMAIN ps.ecdsa_signers, bytes)
    IN  IF ecdsa # {} THEN ecdsa ELSE find_typed(DOMAIN ps.bls_signers, bytes)

find_pubkey(ps, bytes) ==
    LET bls == find_typed(DOMAIN ps.bls_signers, bytes)
    IN  IF bls # {} THEN bls ELSE find_typed(DOMAIN ps.ecdsa_signers, bytes)

\* ---------------------------------------------------------- SigningManager
Ok(value) == [tag |-> "Ok", value |-> value]
Err(kind, bytes) == [tag |-> "Err", kind |-> kind, bytes |-> bytes]
NoArgs == [none |-> TRUE]

Event(op, phase, args, result) ==
    [op |-> op, phase |-> phase, args |-> args, result |-> result]

\* SigningManager::new(chain)
new(c) ==
    /\ chain = c
    /\ consensus_signers = EmptyMap
    /\ proxy_signers = [bls_signers |-> EmptyMap, ecdsa_signers |-> EmptyMap]
    /\ proxy_pubkeys = EmptyMap

\* mutant: the consensus signer is not stored
add_consensus_signer_dropped(signers, signer) == signers

add_consensus_signer(signers, signer) ==
    insert(signers, signer_pubkey(signer), signer)

\* mutant: the proxy signer is not stored
add_proxy_signer_dropped(ps, proxy) == ps

add_proxy_signer(ps, proxy) == add(ps, proxy)

\* mutant: the index is not updated
push_proxy_pubkey_skipped(index, module_id, proxy_pubkey) == index

\* mutant: the module's list is replaced by the new key instead of extended
push_proxy_pubkey_replacing(index, module_id, proxy_pubkey) ==
    insert(index, module_id, <<proxy_pubkey>>)

\* proxy_pubkeys.entry(module_id).or_default().push(proxy_pubkey)
push_proxy_pubkey(index, module_id, proxy_pubkey) ==
    insert(index, module_id,
           Append(IF module_id \in DOMAIN index THEN index[module_id] ELSE <<>>,
                  proxy_pubkey))

\* create_proxy: ProxyDelegation { delegator, proxy: proxy_pubkey }
delegation_message(delegator, proxy_pubkey) ==
    [delegator |-> delegator, proxy |-> proxy_pubkey]

\* mutant: the certificate is signed with the new proxy key
signed_delegation_by_proxy(consensus_signer, proxy_signer, c, message) ==
    [signature |-> sign(proxy_signer, c, tree_hash_root(message)),
     message |-> message]

\* create_proxy: the message signed by the delegator's consensus signer on the
\* manager's chain, assembled into SignedProxyDelegation { signature, message }
signed_delegation(consensus_signer, proxy_signer, c, message) ==
    [signature |-> sign(consensus_signer, c, tree_hash_root(message)),
     message |-> message]

\* the lookup of sign_consensus: consensus_signers.get(pubkey)
get_consensus_signer(signers, pk) ==
    IF pk \in DOMAIN signers THEN {signers[pk]} ELSE {}

find_proxy_panics(ps, bytes) ==
    \E g \in find_pubkey(ps, bytes) : get(ps, g) = {}

find_proxy(ps, bytes) ==
    UNION {get(ps, g) : g \in find_pubkey(ps, bytes)}

consensus_pubkeys_of(signers) == DOMAIN signers

has_consensus(signers, pk) == pk \in DOMAIN signers

\* mutant: has_proxy looks at the BLS keys only
has_proxy_bls_only(ps, bytes) == find_typed(DOMAIN ps.bls_signers, bytes) # {}

has_proxy(ps, bytes) == find_pubkey(ps, bytes) # {}

get_delegation(ps, bytes) ==
    IF find_proxy(ps, bytes) = {}
    THEN Err("UnknownProxySigner", bytes)
    ELSE Ok((CHOOSE p \in find_proxy(ps, bytes) : TRUE).delegation)

\* ------------------------------------------------------------------ inputs
\* the consensus public keys a caller may present: the one of the consensus signer,
\* and one that is never registered
ConsensusPubkeys == {pubkey("Bls", k) : k \in ConsensusKeys \cup {MaxKey + 2}}

\* the raw bytes of every key the manager holds
UsedBytes ==
    {as_ref(k) : k \in (DOMAIN consensus_signers) \cup (DOMAIN proxy_signers.bls_signers)
                        \cup (DOMAIN proxy_signers.ecdsa_signers)}

\* mutant: the generator is seeded with a constant and draws the same key each time
new_random_seeded == {1}

\* Signer::new_random(): a key nobody holds.  Unused keys are interchangeable,
\* so the least one stands for whichever the generator draws.
new_random ==
    {sk \in ProxyKeys :
        /\ PubBase + sk \notin UsedBytes
        /\ \A other \in ProxyKeys : PubBase + other \notin UsedBytes => sk <= other}

\* a certificate a caller made with the first consensus key for the proxy key `proxy`
CallerDelegation(proxy) ==
    LET message == [delegator |-> pubkey("Bls", MaxKey + 1), proxy |-> proxy]
    IN  [message |-> message,
         signature |-> sign(new_signer("Bls", MaxKey + 1), chain,
                            tree_hash_root(message))]

\* the proxy signers a caller may hand to add_proxy_signer: a key pair of either
\* scheme with a certificate for its own public key, or for another public key
CallerProxySigners ==
    {ProxySigner(new_signer(s, sk), CallerDelegation(pubkey(s, p))) :
        s \in Schemes, sk \in CallerKeys, p \in {1, 2}}

NoBorrow == writer = {} /\ readers = {}

\* ----------------------------------------------------------------- actions
Init ==
    /\ new(CHAIN)
    /\ writer = {}
    /\ readers = {}
    /\ added = {}
    /\ event = Event("new", "return", NoArgs, Ok(TRUE))

AddConsensusSigner(sk) ==
    /\ NoBorrow
    /\ consensus_signers' = add_consensus_signer(consensus_signers, new_signer("Bls", sk))
    /\ added' = added \cup {pubkey("Bls", sk)}
    /\ event' = Event("add_consensus_signer", "return", [pubkey |-> pubkey("Bls", sk)], Ok(TRUE))
    /\ UNCHANGED <<chain, proxy_signers, proxy_pubkeys, writer, readers>>

AddProxySigner(proxy) ==
    /\ NoBorrow
    /\ proxy_signers' = add_proxy_signer(proxy_signers, proxy)
    /\ event' = Event("add_proxy_signer", "return", [proxy |-> proxy], Ok(TRUE))
    /\ UNCHANGED <<chain, consensus_signers, proxy_pubkeys, writer, readers, added>>

\* mutant: the new key is stored before the delegator is looked up and the
\* certificate signed
CreateProxyCall_publish_first(module_id, delegator, scheme, sk) ==
    /\ NoBorrow
    /\ sk \in new_random
    /\ LET signer == new_signer(scheme, sk)
           proxy_pubkey == signer_pubkey(signer)
           message == delegation_message(delegator, proxy_pubkey)
           found == get_consensus_signer(consensus_signers, delegator)
           args == [module_id |-> module_id, delegator |-> delegator, scheme |-> scheme]
       IN  /\ proxy_signers' = add_proxy_signer(proxy_signers,
                                    ProxySigner(signer, CallerDelegation(proxy_pubkey)))
           /\ IF found = {}
              THEN /\ writer' = {}
                   /\ event' = Event("create_proxy", "return", args,
                                     Err("UnknownConsensusSigner", as_ref(delegator)))
              ELSE /\ writer' = {[module_id |-> module_id, signer |-> signer,
                                  message |-> message,
                                  consensus_signer |-> CHOOSE x \in found : TRUE,
                                  args |-> args, pre |-> manager]}
                   /\ event' = Event("create_proxy", "call", NoArgs, Ok(TRUE))
    /\ UNCHANGED <<chain, consensus_signers, proxy_pubkeys, readers, added>>

\* create_proxy up to the await of sign_consensus: the key is generated, the
\* message built and the delegator's signer looked up
CreateProxyCall(module_id, delegator, scheme, sk) ==
    /\ NoBorrow
    /\ sk \in new_random
    /\ LET signer == new_signer(scheme, sk)
           proxy_pubkey == signer_pubkey(signer)
           message == delegation_message(delegator, proxy_pubkey)
           found == get_consensus_signer(consensus_signers, delegator)
           args == [module_id |-> module_id, delegator |-> delegator, scheme |-> scheme]
       IN  IF found = {}
           THEN /\ writer' = {}
                /\ event' = Event("create_proxy", "return", args,
                                  Err("UnknownConsensusSigner", as_ref(delegator)))
           ELSE /\ writer' = {[module_id |-> module_id, signer |-> signer,
                               message |-> message,
                               consensus_signer |-> CHOOSE x \in found : TRUE,
                               args |-> args, pre |-> manager]}
                /\ event' = Event("create_proxy", "call", NoArgs, Ok(TRUE))
    /\ UNCHANGED <<chain, consensus_signers, proxy_signers, proxy_pubkeys, readers, added>>

\* create_proxy after the await: the certificate is assembled and the key published
CreateProxyReturn ==
    \E c \in writer :
        LET signed == signed_delegation(c.consensus_signer, c.signer, chain, c.message)
            proxy_signer == ProxySigner(c.signer, signed)
        IN  /\ proxy_signers' = add_proxy_signer(proxy_signers, proxy_signer)
            /\ proxy_pubkeys' = push_proxy_pubkey(proxy_pubkeys, c.module_id, c.message.proxy)
            /\ writer' = {}
            /\ event' = Event("create_proxy", "return", c.args, Ok(signed))
            /\ UNCHANGED <<chain, consensus_signers, readers, added>>

\* the create_proxy future is dropped while suspended in sign
CreateProxyCancel ==
    \E c \in writer :
        /\ writer' = {}
        /\ event' = Event("create_proxy", "cancel", NoArgs, Ok(c.pre))
        /\ UNCHANGED <<chain, consensus_signers, proxy_signers, proxy_pubkeys, readers, added>>

\* mutant: an unknown consensus key is reported with the proxy error
SignConsensusCall_wrong_error(pk, r) ==
    /\ writer = {}
    /\ Cardinality(readers) < MaxReaders
    /\ LET found == get_consensus_signer(consensus_signers, pk)
           args == [pubkey |-> pk, root |-> r]
       IN  IF found = {}
           THEN /\ readers' = readers
                /\ event' = Event("sign_consensus", "return", args,
                                  Err("UnknownProxySigner", as_ref(pk)))
           ELSE /\ readers' = readers \cup {[op |-> "sign_consensus",
                                             signer |-> CHOOSE x \in found : TRUE,
                                             args |-> args, pre |-> manager]}
                /\ event' = Event("sign_consensus", "call", NoArgs, Ok(TRUE))
    /\ UNCHANGED <<chain, consensus_signers, proxy_signers, proxy_pubkeys, writer, added>>

\* sign_consensus up to the await of signer.sign
SignConsensusCall(pk, r) ==
    /\ writer = {}
    /\ Cardinality(readers) < MaxReaders
    /\ LET found == get_consensus_signer(consensus_signers, pk)
           args == [pubkey |-> pk, root |-> r]
       IN  IF found = {}
           THEN /\ readers' = readers
                /\ event' = Event("sign_consensus", "return", args,
                                  Err("UnknownConsensusSigner", as_ref(pk)))
           ELSE /\ readers' = readers \cup {[op |-> "sign_consensus",
                                             signer |-> CHOOSE x \in found : TRUE,
                                             args |-> args, pre |-> manager]}
                /\ event' = Event("sign_consensus", "call", NoArgs, Ok(TRUE))
    /\ UNCHANGED <<chain, consensus_signers, proxy_signers, proxy_pubkeys, writer, added>>

\* sign_proxy up to the await of proxy.sign
SignProxyCall(bytes, r) ==
    /\ writer = {}
    /\ Cardinality(readers) < MaxReaders
    /\ LET found == find_proxy(proxy_signers, bytes)
           args == [pubkey |-> bytes, root |-> r]
       IN  IF find_proxy_panics(proxy_signers, bytes)
           THEN /\ readers' = readers
                /\ event' = Event("sign_proxy", "panic", args, Err("Unreachable!", bytes))
           ELSE IF found = {}
           THEN /\ readers' = readers
                /\ event' = Event("sign_proxy", "return", args,
                                  Err("UnknownProxySigner", bytes))
           ELSE /\ readers' = readers \cup {[op |-> "sign_proxy",
                                             signer |-> (CHOOSE x \in found : TRUE).signer,
                                             args |-> args, pre |-> manager]}
                /\ event' = Event("sign_proxy", "call", NoArgs, Ok(TRUE))
    /\ UNCHANGED <<chain, consensus_signers, proxy_signers, proxy_pubkeys, writer, added>>

\* the signature of a suspended sign_consensus / sign_proxy call is returned
SignReturn ==
    \E c \in readers :
        /\ readers' = readers \ {c}
        /\ event' = Event(c.op, "return", c.args,
                          Ok(sign(c.signer, chain, object_root(c.args.root))))
        /\ UNCHANGED <<chain, consensus_signers, proxy_signers, proxy_pubkeys, writer, added>>

\* a suspended sign_consensus / sign_proxy future is dropped
SignCancel ==
    \E c \in readers :
        /\ readers' = readers \ {c}
        /\ event' = Event(c.op, "cancel", NoArgs, Ok(c.pre))
        /\ UNCHANGED <<chain, consensus_signers, proxy_signers, proxy_pubkeys, writer, added>>

\* mutant: the read goes through entry(..).or_default() and leaves an empty list
Read_or_default(op) ==
    /\ writer = {}
    /\ event' = Event(op, "return", NoArgs, Ok(TRUE))
    /\ proxy_pubkeys' = IF "m1" \in DOMAIN proxy_pubkeys THEN proxy_pubkeys
                        ELSE insert(proxy_pubkeys, "m1", <<>>)
    /\ UNCHANGED <<chain, consensus_signers, proxy_signers, writer, readers, added>>

\* the synchronous read operations: the event names the operation, the value
\* it returns is the operator of the same name on the current state
Read(op) ==
    /\ writer = {}
    /\ event' = Event(op, "return", NoArgs, Ok(TRUE))
    /\ UNCHANGED <<chain, consensus_signers, proxy_signers, proxy_pubkeys,
                   writer, readers, added>>

ConsensusPubkeysOp == Read("consensus_pubkeys")

ProxyPubkeysOp == Read("proxy_pubkeys")

HasConsensusOp(pk) == Read("has_consensus")

HasProxyOp(bytes) == Read("has_proxy")

GetDelegationOp(bytes) ==
    /\ writer = {}
    /\ event' = IF find_proxy_panics(proxy_signers, bytes)
                THEN Event("get_delegation", "panic", [pubkey |-> bytes],
                           Err("Unreachable!", bytes))
                ELSE Event("get_delegation", "return", [pubkey |-> bytes],
                           get_delegation(proxy_signers, bytes))
    /\ UNCHANGED <<chain, consensus_signers, proxy_signers, proxy_pubkeys,
                   writer, readers, added>>

Next ==
    \/ \E sk \in ConsensusKeys : AddConsensusSigner(sk)
    \/ \E proxy \in CallerProxySigners : AddProxySigner(proxy)
    \/ \E m \in ModuleIds, k \in ConsensusPubkeys, s \in Schemes, sk \in ProxyKeys :
            CreateProxyCall(m, k, s, sk)
    \/ CreateProxyReturn
    \/ CreateProxyCancel
    \/ \E k \in ConsensusPubkeys, r \in Roots : SignConsensusCall(k, r)
    \/ \E b \in RawBytes, r \in Roots : SignProxyCall(b, r)
    \/ SignReturn
    \/ SignCancel
    \/ ConsensusPubkeysOp
    \/ ProxyPubkeysOp
    \/ \E k \in ConsensusPubkeys : HasConsensusOp(k)
    \/ \E b \in RawBytes : HasProxyOp(b)
    \/ \E b \in RawBytes : GetDelegationOp(b)

Spec == Init /\ [][Next]_vars

\* ------------------------------------------------------------------ claims
CreateProxyReturned == event.op = "create_proxy" /\ event.phase = "return"

CreateProxySucceeded == CreateProxyReturned /\ event.result.tag = "Ok"

Range(seq) == {seq[i] : i \in DOMAIN seq}

IsPrefix(s, t) == Len(s) <= Len(t) /\ \A i \in DOMAIN s : s[i] = t[i]

\* C1: in the state right after create_proxy(m, k) returns, if k is a registered
\* consensus key then the call returned Ok, has_proxy is true of the raw bytes of
\* the returned message.proxy, and proxy_pubkeys[m] contains the returned proxy.
C1_CreateProxyRegisters ==
    (CreateProxyReturned /\ has_consensus(consensus_signers, event.args.delegator)) =>
        /\ event.result.tag = "Ok"
        /\ has_proxy(proxy_signers, as_ref(event.result.value.message.proxy))
        /\ event.args.module_id \in DOMAIN proxy_pubkeys
        /\ event.result.value.message.proxy \in Range(proxy_pubkeys[event.args.module_id])

C1_Witness ==
    /\ CreateProxySucceeded
    /\ event.args.module_id = "m2"
    /\ Len(proxy_pubkeys["m2"]) = 2

\* C2: the step in which create_proxy(m, k) returns Ok returns a delegation whose
\* delegator is k, whose proxy is the public key generated by this call (a key the
\* manager did not hold before), and whose signature is the one k's consensus
\* signer makes over the message's root on the manager's chain, not one by the
\* proxy key; validate(chain) accepts it.
C2_DelegationSignedByDelegator ==
    [][(writer # {} /\ event'.op = "create_proxy" /\ event'.phase = "return") =>
         \A c \in writer :
            LET d == event'.result.value
                k == event'.args.delegator
            IN  /\ event'.result.tag = "Ok"
                /\ d.message.delegator = k
                /\ d.message.proxy = signer_pubkey(c.signer)
                /\ d.message.proxy.scheme = event'.args.scheme
                /\ as_ref(d.message.proxy) \notin UsedBytes
                /\ k \in DOMAIN consensus_signers
                /\ d.signature = sign(consensus_signers[k], chain,
                                      tree_hash_root(d.message))
                /\ pubkey(d.signature.scheme, d.signature.by) = k
                /\ pubkey(d.signature.scheme, d.signature.by) # d.message.proxy
                /\ validate(d, chain)]_vars

C2_Witness ==
    /\ CreateProxySucceeded
    /\ event.args.scheme = "Ecdsa"
    /\ validate(event.result.value, chain)

\* C3: a create_proxy(m, k) call made while k is not a registered consensus signer
\* returns UnknownConsensusSigner with k's bytes in the same step, and that step
\* leaves chain, consensus_signers, both proxy maps and proxy_pubkeys as they
\* were; no call stays suspended and the generated key is held nowhere.
C3_UnknownDelegatorLeavesNoTrace ==
    [][(writer = {} /\ event'.op = "create_proxy"
            /\ \A c \in writer' : ~has_consensus(consensus_signers, c.args.delegator)
            /\ (event'.phase = "return" =>
                    ~has_consensus(consensus_signers, event'.args.delegator))) =>
         /\ event'.phase = "return"
         /\ event'.result = Err("UnknownConsensusSigner", as_ref(event'.args.delegator))
         /\ manager' = manager
         /\ writer' = {}
         /\ event'.args.module_id \in DOMAIN proxy_pubkeys' =>
                event'.args.module_id \in DOMAIN proxy_pubkeys
         /\ \A sk \in new_random :
                ~has_proxy(proxy_signers', as_ref(pubkey(event'.args.scheme, sk)))]_vars

C3_Witness ==
    /\ CreateProxyReturned
    /\ event.result.tag = "Err"
    /\ event.result.kind = "UnknownConsensusSigner"
    /\ consensus_signers # EmptyMap

\* C4: every public key in any module's list of proxy_pubkeys is a key of the
\* proxy map of its scheme.
C4_IndexedKeysAreRegistered ==
    \A m \in DOMAIN proxy_pubkeys :
        \A pk \in Range(proxy_pubkeys[m]) : get(proxy_signers, pk) # {}

C4_Witness ==
    \E m \in DOMAIN proxy_pubkeys :
        /\ Len(proxy_pubkeys[m]) = 2
        /\ proxy_pubkeys[m][1].scheme # proxy_pubkeys[m][2].scheme

ProxyKeysHeld ==
    (DOMAIN proxy_signers.bls_signers) \cup (DOMAIN proxy_signers.ecdsa_signers)

\* C5: every ProxySigner stored in the registry, whoever inserted it, carries a
\* delegation whose message.proxy is its signer's public key, and is stored under
\* that public key.
C5_StoredDelegationNamesItsSigner ==
    \A k \in ProxyKeysHeld :
        \A p \in get(proxy_signers, k) :
            /\ p.delegation.message.proxy = signer_pubkey(p.signer)
            /\ signer_pubkey(p.signer) = k

\* C6: no step removes a module id from proxy_pubkeys, and every module's list
\* before a step is a prefix of its list after the step.
C6_IndexIsAppendOnly ==
    [][\A m \in DOMAIN proxy_pubkeys :
            /\ m \in DOMAIN proxy_pubkeys'
            /\ IsPrefix(proxy_pubkeys[m], proxy_pubkeys'[m])]_vars

C6_Witness ==
    /\ CreateProxySucceeded
    /\ \E m \in DOMAIN proxy_pubkeys :
            /\ Len(proxy_pubkeys[m]) = 2
            /\ proxy_pubkeys[m][2] = event.result.value.message.proxy
    /\ Cardinality(DOMAIN proxy_pubkeys) = 1

NoKeyHasBytes(bytes) == \A k \in ProxyKeysHeld : as_ref(k) # bytes

\* C7: sign_consensus on a public key never passed to add_consensus_signer does
\* not reach the signer and returns UnknownConsensusSigner; sign_proxy and
\* get_delegation on bytes that are the raw bytes of no key of either proxy map do
\* not reach a signer and return UnknownProxySigner; each error carries the raw
\* bytes that were requested.
C7_UnknownKeyErrors ==
    /\ \A c \in readers :
            /\ c.op = "sign_consensus" => c.args.pubkey \in added
            /\ c.op = "sign_proxy" => ~NoKeyHasBytes(c.args.pubkey)
    /\ (event.op = "sign_consensus" /\ event.phase = "return"
            /\ event.args.pubkey \notin added) =>
          event.result = Err("UnknownConsensusSigner", as_ref(event.args.pubkey))
    /\ (event.op \in {"sign_proxy", "get_delegation"} /\ event.phase # "call"
            /\ event.phase # "cancel" /\ NoKeyHasBytes(event.args.pubkey)) =>
          /\ event.phase = "return"
          /\ event.result = Err("UnknownProxySigner", event.args.pubkey)

C7_Witness ==
    /\ event.op = "sign_proxy"
    /\ event.phase = "return"
    /\ event.result.tag = "Err"
    /\ ProxyKeysHeld # {}
    /\ added # {}

NonMutatingOps ==
    {"sign_consensus", "sign_proxy", "consensus_pubkeys", "proxy_pubkeys",
     "has_consensus", "has_proxy", "get_delegation"}

\* C8: every step of sign_consensus and sign_proxy (call, return with a signature
\* or an error, cancel) and of consensus_pubkeys, proxy_pubkeys, has_consensus,
\* has_proxy and get_delegation leaves chain, consensus_signers, both proxy maps
\* and proxy_pubkeys unchanged.
C8_SigningAndReadsKeepTheManager ==
    [][event'.op \in NonMutatingOps => manager' = manager]_vars

C8_Witness ==
    /\ event.op = "sign_proxy"
    /\ event.phase = "return"
    /\ event.result.tag = "Ok"
    /\ proxy_pubkeys = EmptyMap

ObserverOps == {"has_proxy", "sign_proxy", "get_delegation", "proxy_pubkeys"}

Indexed(index, pk) == \E m \in DOMAIN index : pk \in Range(index[m])

\* C9: while create_proxy is suspended in the delegation signing its key is in
\* neither proxy map and in no list of proxy_pubkeys; the step of create_proxy
\* that changes the registry or the index is the one that returns the signed
\* delegation, and that one step both stores the key with that delegation and
\* appends it to proxy_pubkeys[m]; no has_proxy, sign_proxy, get_delegation or
\* proxy_pubkeys step is taken between the call and the return of create_proxy.
C9_PublishIsAtomic ==
    /\ [](\A c \in writer :
            /\ get(proxy_signers, c.message.proxy) = {}
            /\ ~has_proxy(proxy_signers, as_ref(c.message.proxy))
            /\ ~Indexed(proxy_pubkeys, c.message.proxy))
    /\ [][(event'.op = "create_proxy"
                /\ (proxy_signers' # proxy_signers \/ proxy_pubkeys' # proxy_pubkeys)) =>
            \E c \in writer :
                /\ event'.phase = "return"
                /\ event'.result.tag = "Ok"
                /\ get(proxy_signers', c.message.proxy)
                        = {ProxySigner(c.signer, event'.result.value)}
                /\ c.module_id \in DOMAIN proxy_pubkeys'
                /\ Len(proxy_pubkeys'[c.module_id]) > 0
                /\ proxy_pubkeys'[c.module_id][Len(proxy_pubkeys'[c.module_id])]
                        = c.message.proxy]_vars
    /\ [][event'.op \in ObserverOps => (writer = {} /\ writer' = {})]_vars

C9_Witness ==
    /\ writer # {}
    /\ proxy_pubkeys # EmptyMap
    /\ ProxyKeysHeld # {}

\* C10: the step that cancels a create_proxy, sign_consensus or sign_proxy call
\* suspended in sign leaves the manager as it is, which is as it was when the call
\* started; after a cancelled create_proxy the generated key is in neither proxy
\* map and in no list of proxy_pubkeys, and no call is left suspended.
C10_CancelLeavesTheManager ==
    [][event'.phase = "cancel" =>
         /\ manager' = manager
         /\ manager' = event'.result.value
         /\ event'.op = "create_proxy" =>
                /\ writer # {}
                /\ writer' = {}
                /\ \A c \in writer :
                      /\ get(proxy_signers', c.message.proxy) = {}
                      /\ ~has_proxy(proxy_signers', as_ref(c.message.proxy))
                      /\ ~Indexed(proxy_pubkeys', c.message.proxy)]_vars

C10_Witness ==
    /\ event.op = "create_proxy"
    /\ event.phase = "cancel"
    /\ event.result.value = manager
    /\ ProxyKeysHeld # {}

\* C11: every step in which create_proxy(m, k) returns Ok appends exactly the
\* returned proxy key to proxy_pubkeys[m], a key that was not in that list before,
\* and no other step changes any list; so after n successful calls for m the list
\* holds n keys in completion order.  The keys of every list are pairwise
\* distinct and has_proxy is true of the raw bytes of each.
C11_CreatedKeysAreDistinctAndOrdered ==
    /\ [](\A m \in DOMAIN proxy_pubkeys :
            /\ \A i, j \in DOMAIN proxy_pubkeys[m] :
                  i # j => proxy_pubkeys[m][i] # proxy_pubkeys[m][j]
            /\ \A i \in DOMAIN proxy_pubkeys[m] :
                  has_proxy(proxy_signers, as_ref(proxy_pubkeys[m][i])))
    /\ [][IF writer # {} /\ event'.op = "create_proxy" /\ event'.phase = "return"
              /\ event'.result.tag = "Ok"
          THEN LET m == event'.args.module_id
                   before == IF m \in DOMAIN proxy_pubkeys
                             THEN proxy_pubkeys[m] ELSE <<>>
                   p == event'.result.value.message.proxy
               IN  /\ m \in DOMAIN proxy_pubkeys'
                   /\ proxy_pubkeys'[m] = Append(before, p)
                   /\ p \notin Range(before)
                   /\ \A other \in DOMAIN proxy_pubkeys' \ {m} :
                         other \in DOMAIN proxy_pubkeys
                             /\ proxy_pubkeys'[other] = proxy_pubkeys[other]
          ELSE proxy_pubkeys' = proxy_pubkeys]_vars

C11_Witness ==
    /\ CreateProxySucceeded
    /\ event.args.module_id = "m1"
    /\ event.args.delegator = pubkey("Bls", MaxKey + 1)
    /\ "m1" \in DOMAIN proxy_pubkeys
    /\ Len(proxy_pubkeys["m1"]) = 2
    /\ proxy_pubkeys["m1"][1] # proxy_pubkeys["m1"][2]
    /\ proxy_pubkeys["m1"][2] = event.result.value.message.proxy

\* C12: a lookup by raw bytes that is meant for a proxy key the registry holds
\* resolves within that key's scheme, also when keys of the two schemes have the
\* same raw bytes: find_pubkey on the bytes of a BLS key never yields an ECDSA key
\* and on the bytes of an ECDSA key never yields a BLS key, the signer sign_proxy
\* reaches and the delegation get_delegation returns are those of a key of that
\* scheme.
C12_LookupStaysInItsScheme ==
    \A k \in ProxyKeysHeld :
        /\ \A g \in find_pubkey(proxy_signers, as_ref(k)) : g.scheme = k.scheme
        /\ \A p \in find_proxy(proxy_signers, as_ref(k)) :
              /\ p.signer.scheme = k.scheme
              /\ get_delegation(proxy_signers, as_ref(k)) \in
                    {Ok(q.delegation) : q \in get(proxy_signers, k)}

\* C13: when sign_proxy(b, r) returns a signature, it is, for every proxy key p of
\* the registry whose raw bytes are b, the signature p's own secret key makes over
\* r on the manager's chain: it verifies against p, and it is the one made by the
\* signer stored under p.
C13_ProxySignsWithItsOwnKey ==
    (event.op = "sign_proxy" /\ event.phase = "return" /\ event.result.tag = "Ok") =>
        \A p \in ProxyKeysHeld :
            as_ref(p) = event.args.pubkey =>
                /\ verify_signature(p,
                        compute_signing_root(object_root(event.args.root), chain),
                        event.result.value)
                /\ \A q \in get(proxy_signers, p) :
                      event.result.value =
                          sign(q.signer, chain, object_root(event.args.root))

\* every public key of the key space: proxy keys of both schemes, consensus keys
AllPubkeys == {pubkey(s, k) : s \in Schemes, k \in 1..(MaxKey + 2)}

\* every delegation message over the key space
AllMessages ==
    {delegation_message(d, p) : d \in {pubkey("Bls", k) : k \in 1..(MaxKey + 2)},
                                p \in AllPubkeys}

\* every signature value: any key of either scheme over any message root or object
\* root, on any chain
AllSignatures ==
    {[by |-> k, scheme |-> s, signing_root |-> compute_signing_root(root, c)] :
        k \in 1..(MaxKey + 2), s \in Schemes, c \in Chains,
        root \in {tree_hash_root(m) : m \in AllMessages}
                    \cup {object_root(r) : r \in Roots}}

\* C14: the delegation create_proxy returns validates on the manager's chain, and
\* stops validating when its signature is changed to any other value, when its
\* message is changed (another delegator or another proxy key) under the same
\* signature, and when it is validated for another chain.
C14_TamperedDelegationIsInvalid ==
    CreateProxySucceeded =>
        LET d == event.result.value
        IN  /\ validate(d, chain)
            /\ d.signature \in AllSignatures
            /\ d.message \in AllMessages
            /\ \A sig \in AllSignatures \ {d.signature} :
                  ~validate([d EXCEPT !.signature = sig], chain)
            /\ \A msg \in AllMessages \ {d.message} :
                  ~validate([d EXCEPT !.message = msg], chain)
            /\ \A c \in Chains \ {chain} : ~validate(d, c)

C14_Witness ==
    /\ CreateProxySucceeded
    /\ event.args.scheme = "Bls"
    /\ validate(event.result.value, chain)
    /\ ~validate([event.result.value EXCEPT !.signature.by = 1], chain)
    /\ ~validate(event.result.value, "Mainnet")

\* C15: find_pubkey(b) looks in the BLS map first and in the ECDSA map only when
\* no BLS key matches: it yields a BLS key with raw bytes b whenever the BLS map
\* has one, an ECDSA key with raw bytes b when the BLS map has none and the ECDSA
\* map has one, and None exactly when neither map has a key with raw bytes b;
\* get_delegation(b) then returns the delegation of the BLS key when both match.
C15_FindPubkeyPrefersBls ==
    \A b \in RawBytes :
        LET found == find_pubkey(proxy_signers, b)
            bls == {k \in DOMAIN proxy_signers.bls_signers : as_ref(k) = b}
            ecdsa == {k \in DOMAIN proxy_signers.ecdsa_signers : as_ref(k) = b}
        IN  /\ Cardinality(found) <= 1
            /\ bls # {} => (found = bls /\ \A g \in found : g.scheme = "Bls")
            /\ (bls = {} /\ ecdsa # {}) =>
                  (found = ecdsa /\ \A g \in found : g.scheme = "Ecdsa")
            /\ found = {} <=> (bls = {} /\ ecdsa = {})
            /\ (event.op = "get_delegation" /\ event.phase = "return"
                    /\ event.args.pubkey = b /\ bls # {}) =>
                  event.result \in {Ok(proxy_signers.bls_signers[k].delegation) : k \in bls}

C15_Witness ==
    \E b \in RawBytes :
        /\ \E k \in DOMAIN proxy_signers.bls_signers : as_ref(k) = b
        /\ \E k \in DOMAIN proxy_signers.ecdsa_signers : as_ref(k) = b
        /\ find_pubkey(proxy_signers, b) = {pubkey("Bls", b - PubBase)}
        /\ event.op = "get_delegation"
        /\ event.args.pubkey = b
        /\ event.result.tag = "Ok"
        /\ \E other \in RawBytes :
              /\ find_pubkey(proxy_signers, other) # {}
              /\ \A g \in find_pubkey(proxy_signers, other) : g.scheme = "Ecdsa"

\* the map of the registry that holds the keys of a scheme
SchemeMap(ps, scheme) == IF scheme = "Bls" THEN ps.bls_signers ELSE ps.ecdsa_signers

\* C16: every add_proxy_signer(p) step returns without an error and stores p in
\* the map of p's scheme under p's own public key: a key already there keeps the
\* key count and gets p as its signer and delegation, every other entry of that
\* map, the other scheme's map, consensus_signers, chain and proxy_pubkeys stay as
\* they were, and get_delegation on the raw bytes of that key then returns p's
\* delegation.
C16_AddProxySignerStoresAndFrames ==
    [][event'.op = "add_proxy_signer" =>
         LET p == event'.args.proxy
             key == signer_pubkey(p.signer)
             mine == SchemeMap(proxy_signers, key.scheme)
             mine_after == SchemeMap(proxy_signers', key.scheme)
         IN  /\ event'.phase = "return"
             /\ event'.result.tag = "Ok"
             /\ DOMAIN mine_after = DOMAIN mine \cup {key}
             /\ mine_after[key] = p
             /\ \A k \in DOMAIN mine \ {key} : mine_after[k] = mine[k]
             /\ key \in DOMAIN mine =>
                   Cardinality(DOMAIN mine_after) = Cardinality(DOMAIN mine)
             /\ \A s \in Schemes \ {key.scheme} :
                   SchemeMap(proxy_signers', s) = SchemeMap(proxy_signers, s)
             /\ consensus_signers' = consensus_signers
             /\ proxy_pubkeys' = proxy_pubkeys
             /\ chain' = chain
             /\ get_delegation(proxy_signers', as_ref(key)) = Ok(p.delegation)]_vars

C18_FindProxyNeverPanics ==
    /\ \A b \in RawBytes :
          /\ ~find_proxy_panics(proxy_signers, b)
          /\ \A g \in find_pubkey(proxy_signers, b) : get(proxy_signers, g) # {}
          /\ has_proxy(proxy_signers, b) => find_proxy(proxy_signers, b) # {}
    /\ event.phase # "panic"

C18_Witness ==
    /\ event.op = "get_delegation"
    /\ event.phase = "return"
    /\ event.result.tag = "Ok"
    /\ \E g \in find_pubkey(proxy_signers, event.args.pubkey) :
          /\ g.scheme = "Ecdsa"
          /\ get(proxy_signers, g) # {}
    /\ DOMAIN proxy_signers.bls_signers # {}

\* C19: in every state and for all raw bytes b, has_proxy(b) is true exactly when
\* get_delegation(b) returns Ok and exactly when sign_proxy(b, r) reaches a signer
\* and returns a signature; the sign_proxy and get_delegation steps taken agree
\* with has_proxy of their argument, and has_proxy(b), once true, is true after
\* every later step.
C19_ProxyLookupsAgree ==
    /\ [](/\ \A b \in RawBytes :
               /\ has_proxy(proxy_signers, b) <=>
                      get_delegation(proxy_signers, b).tag = "Ok"
               /\ has_proxy(proxy_signers, b) <=>
                      (find_proxy(proxy_signers, b) # {}
                          /\ ~find_proxy_panics(proxy_signers, b))
          /\ \A c \in readers :
               c.op = "sign_proxy" => has_proxy(proxy_signers, c.args.pubkey)
          /\ (event.op \in {"sign_proxy", "get_delegation"} /\ event.phase = "return") =>
               (event.result.tag = "Ok" <=> has_proxy(proxy_signers, event.args.pubkey)))
    /\ [][proxy_signers' # proxy_signers =>
            \A b \in RawBytes :
                has_proxy(proxy_signers, b) => has_proxy(proxy_signers', b)]_vars

C19_Witness ==
    /\ event.op = "sign_proxy"
    /\ event.phase = "return"
    /\ event.result.tag = "Ok"
    /\ has_proxy(proxy_signers, event.args.pubkey)
    /\ get_delegation(proxy_signers, event.args.pubkey).tag = "Ok"
    /\ \E b \in RawBytes : ~has_proxy(proxy_signers, b)
    /\ DOMAIN proxy_signers.bls_signers = {}

\* C20: the step in which create_proxy(m, k) returns Ok with a delegation for the
\* new proxy key p leaves get_delegation(raw bytes of p) returning that delegation
\* (delegator k, proxy p, that signature), and every later step other than an
\* add_proxy_signer of a proxy signer with public key p leaves what
\* get_delegation(raw bytes of p) returns as it was.
C20_CreatedDelegationIsKept ==
    [][/\ (writer # {} /\ event'.op = "create_proxy" /\ event'.phase = "return"
              /\ event'.result.tag = "Ok") =>
            /\ event'.result.value.message.delegator = event'.args.delegator
            /\ get_delegation(proxy_signers',
                              as_ref(event'.result.value.message.proxy))
                  = Ok(event'.result.value)
       /\ \A m \in DOMAIN proxy_pubkeys : \A i \in DOMAIN proxy_pubkeys[m] :
            LET p == proxy_pubkeys[m][i]
            IN  ~(event'.op = "add_proxy_signer"
                      /\ signer_pubkey(event'.args.proxy.signer) = p) =>
                    get_delegation(proxy_signers', as_ref(p))
                        = get_delegation(proxy_signers, as_ref(p))]_vars

====
